---- MODULE Spec2Model ----
(***************************************************************************)
(* Model of the useThemeTransition hook                                    *)
(* (src/src/hook/useThemeTransition.ts).                                   *)
(*                                                                         *)
(* One action is one event-loop task of the hook: the synchronous part of  *)
(* a handler and the microtask continuations it leaves behind, taken       *)
(* together with the React commit (render + effects) of the state updates  *)
(* it made.  The update callback handed to document.startViewTransition    *)
(* and the setTimeout cleanup run in later tasks and are actions of their  *)
(* own; the platform runs update callbacks in the order of the calls, and  *)
(* timers of equal delay fire in the order they were set, but nothing      *)
(* orders a timer against an update callback.                              *)
(***************************************************************************)
EXTENDS Integers, Sequences, FiniteSets, TLC

\* ------------------------------------------------------------------ bounds
\* number of setTheme / toggleTheme requests issued in one behaviour
MaxCalls == 2
\* number of onDarkModeChange invocations after which system-preference
\* notifications that would invoke it once more are no longer delivered
MaxLog == 2
\* largest viewport side, element offset and element side, in pixels, the
\* geometry is computed for (besides the 100 x 100 viewport of the example)
MaxSide == 2

\* ------------------------------------------------------------- state space
VARIABLES
    \* environment and options of the hook instance
    isBrowser,                \* typeof window !== 'undefined'
    hasStartViewTransition,   \* document.startViewTransition is defined
    reducedMotion,            \* matchMedia('(prefers-reduced-motion: reduce)').matches
    systemDark,               \* matchMedia('(prefers-color-scheme: dark)').matches
    animationType,            \* options.animationType
    respectSystemPreference,  \* options.respectSystemPreference
    externalDarkMode,         \* options.isDarkMode: "undefined" | "true" | "false"
    hasOnDarkModeChange,      \* options.onDarkModeChange is supplied
    storageFails,             \* which localStorage accesses throw: "none" | "write" | "all"
    \* host document and storage
    storage,                  \* localStorage[storageKey]: "null" when absent
    markerClass,              \* documentElement.classList.contains(themeClassName)
    baseStyle,                \* #theme-transition-base-style exists
    head,                     \* <style id=styleId> elements of document.head, in order
    listeners,                \* number of 'change' listeners registered on the media query
    \* React state of the hook
    mounted,                  \* the component is mounted (its effects have run)
    unmounted,                \* the component was mounted and has been torn down
    internalDarkMode,
    isTransitioning,
    thrown,                   \* an exception escaped from the hook's code
    \* platform work still to come
    updateCallbacks,          \* update callbacks startViewTransition has not run yet (FIFO)
    timers,                   \* pending cleanup timers (FIFO: all have the same delay)
    \* geometry of the host page and the numbers written into the keyframes
    viewport,                 \* [w |-> window.innerWidth, h |-> window.innerHeight]
    refRect,                  \* <<ref.current.getBoundingClientRect()>>, <<>> if unbound
    keyframeGeometry,         \* <<numbers of the synthesized circle fragment>>, or <<>>
    \* bookkeeping
    nextId,                   \* number of startViewTransition calls made so far
    requests,                 \* setTheme / toggleTheme requests made so far, in order
                              \* (the newest two in full, see Logged)
    onChangeLog               \* arguments onDarkModeChange was invoked with, in order

cfgVars   == <<isBrowser, hasStartViewTransition, animationType,
               respectSystemPreference, hasOnDarkModeChange, storageFails>>
geoVars   == <<viewport, refRect, keyframeGeometry>>
envVars   == <<cfgVars, geoVars, reducedMotion, systemDark, externalDarkMode>>
docVars   == <<storage, markerClass, baseStyle, head, listeners>>
reactVars == <<mounted, unmounted, internalDarkMode, isTransitioning, thrown>>
workVars  == <<updateCallbacks, timers, nextId>>
vars      == <<envVars, docVars, reactVars, workVars, requests, onChangeLog>>

ThemeAnimationType == {"circle", "blur-circle", "fade", "slide", "none"}

StorageValues == {"null", "dark", "light", "system"}

\* ------------------------------------------------------------ pure helpers

\* line 134: external state wins when supplied
isDarkModeOf(ext, internal) ==
    IF ext # "undefined" THEN ext = "true" ELSE internal

isDarkMode == isDarkModeOf(externalDarkMode, internalDarkMode)

\* getInitialTheme falling back to the system preference without testing
\* respectSystemPreference (line 123)
getInitialTheme_alwaysSystem(browser, storedTheme, respect, prefersDark) ==
    IF ~browser THEN FALSE
    ELSE IF storedTheme = "dark" THEN TRUE
    ELSE IF storedTheme = "light" THEN FALSE
    ELSE prefersDark

\* lines 114-128
getInitialTheme(browser, storedTheme, respect, prefersDark) ==
    IF ~browser THEN FALSE
    ELSE IF storedTheme = "dark" THEN TRUE
    ELSE IF storedTheme = "light" THEN FALSE
    ELSE IF respect THEN prefersDark
    ELSE FALSE

\* the @keyframes each synthesized fragment defines
Keyframes(kind) ==
    CASE kind = "fade"        -> {"fadeIn", "fadeOut"}
      [] kind = "slide"       -> {"slideIn", "fadeOut"}
      [] kind = "blur-circle" -> {"maskScale", "fadeOut"}
      [] kind = "circle"      -> {"expandCircle"}
      [] OTHER                -> {}

Fragment(kind, id) == [owner |-> id, keyframes |-> Keyframes(kind)]

\* setTheme without the removal of lines 344-347
RemoveExistingStyle_keeps(h) == h

\* document.getElementById(styleId)?.remove(): the first match in document order
RemoveExistingStyle(h) == IF h = <<>> THEN h ELSE Tail(h)

\* the switch of lines 350-360 without its FADE case
ApplyAnimationStyles_noFade(kind, h, id) ==
    IF kind \in {"slide", "blur-circle"}
    THEN Append(h, Fragment(kind, id))
    ELSE h

\* lines 349-360: the switch appends a fragment for fade, slide and blur-circle only
ApplyAnimationStyles(kind, h, id) ==
    IF kind \in {"fade", "slide", "blur-circle"}
    THEN Append(h, Fragment(kind, id))
    ELSE h

\* lines 372-395: the circle fragment is appended after startViewTransition was called
ApplyCircleStyle(kind, h, id) ==
    IF kind = "circle" THEN Append(h, Fragment(kind, id)) ELSE h

\* the guard of lines 324-328 without the reduced-motion test
DirectPath_ignoresReducedMotion ==
    \/ ~isBrowser
    \/ ~hasStartViewTransition
    \/ animationType = "none"

\* lines 317-331: the conditions that send setTheme down the direct path
DirectPath ==
    \/ ~isBrowser
    \/ ~hasStartViewTransition
    \/ reducedMotion
    \/ animationType = "none"

\* ------------------------------------------------------------------ geometry
\* Lengths and coordinates are held in quarter pixels, the unit in which the
\* halves of lines 334-340 and the factor 5.5 of line 273 are whole numbers.

Px(n) == 4 * n

Half(q) == q \div 2

Max(a, b) == IF a >= b THEN a ELSE b

\* line 273, scaleFactor = 5.5, as the number of halves
scaleFactorTwice == 11

\* the anchor taken at the left and top edge of the bound element (lines 339-340
\* without the half of the width and of the height)
ResolveAnchor_corner(rect, vp) ==
    IF rect = <<>>
    THEN [x |-> Half(Px(vp.w)), y |-> Half(Px(vp.h))]
    ELSE [x |-> Px(rect[1].left), y |-> Px(rect[1].top)]

\* lines 333-341: the viewport centre, replaced by the centre of the bounding
\* box of the bound element when there is one
ResolveAnchor(rect, vp) ==
    IF rect = <<>>
    THEN [x |-> Half(Px(vp.w)), y |-> Half(Px(vp.h))]
    ELSE [x |-> Px(rect[1].left) + Half(Px(rect[1].width)),
          y |-> Px(rect[1].top) + Half(Px(rect[1].height))]

\* Math.hypot(a, b) is the square root of this sum
hypotSq(a, b) == a * a + b * b

\* lines 373-376: the square of maxRadius
maxRadiusSq(x, y, vp) ==
    hypotSq(Max(x, Px(vp.w) - x), Max(y, Px(vp.h) - y))

\* line 272
viewportSize(vp) == Max(Px(vp.w), Px(vp.h))

\* line 299 with the position of line 300 taken at the full final size
maskScaleTo_uncentred(x, y, vp) ==
    LET size == Half(viewportSize(vp) * scaleFactorTwice)
    IN  [size |-> size, px |-> x - size, py |-> y - size]

\* lines 298-301: the 100% keyframe of maskScale
maskScaleTo(x, y, vp) ==
    LET size == Half(viewportSize(vp) * scaleFactorTwice)
    IN  [size |-> size, px |-> x - Half(size), py |-> y - Half(size)]

\* lines 294-297: the 0% keyframe of maskScale
maskScaleFrom(x, y) == [size |-> 0, px |-> x, py |-> y]

\* ------------------------------------------------------------ React commit

\* the listener effect re-run without the cleanup of line 171
ListenerEffect_noCleanup(count, wasOn, isOn) ==
    count + (IF isBrowser /\ isOn THEN 1 ELSE 0)

\* lines 158-172: one run of the listener effect after a change of its
\* dependencies: the cleanup returned by the previous run removes the listener
\* that run added (line 171), then the effect adds a new one when
\* respectSystemPreference is on (lines 159, 170); wasOn and isOn are the flag
\* at the previous run and now (isOn FALSE: no run follows the cleanup)
ListenerEffect(count, wasOn, isOn) ==
    (count - (IF isBrowser /\ wasOn THEN 1 ELSE 0))
          + (IF isBrowser /\ isOn THEN 1 ELSE 0)

\* the effect with the else branch of lines 151-154 writing nothing
ApplyThemeEffect_darkOnly(old, new) ==
    IF isBrowser /\ old # new /\ new
    THEN /\ markerClass' = TRUE
         /\ storage' = "dark"
    ELSE UNCHANGED <<markerClass, storage>>

\* the effect without the isBrowser test of line 146
ApplyThemeEffect_noBrowserTest(old, new) ==
    IF old # new
    THEN /\ markerClass' = new
         /\ storage' = IF new THEN "dark" ELSE "light"
    ELSE UNCHANGED <<markerClass, storage>>

\* lines 145-155: effect that applies isDarkMode to the DOM and to storage; it
\* runs when the rendered isDarkMode differs from the previous render's
ApplyThemeEffect(old, new) ==
    IF isBrowser /\ old # new
    THEN /\ markerClass' = new
         /\ storage' = IF new THEN "dark" ELSE "light"
    ELSE UNCHANGED <<markerClass, storage>>

\* updateDarkMode that calls the callback and also sets the internal state
updateDarkMode_both(newValue) ==
    /\ IF hasOnDarkModeChange
       THEN /\ onChangeLog' = Append(onChangeLog, newValue)
            /\ externalDarkMode' =
                 IF externalDarkMode # "undefined"
                 THEN (IF newValue THEN "true" ELSE "false")
                 ELSE externalDarkMode
            /\ internalDarkMode' = newValue
       ELSE /\ internalDarkMode' = newValue
            /\ UNCHANGED <<onChangeLog, externalDarkMode>>
    /\ ApplyThemeEffect(isDarkMode, isDarkModeOf(externalDarkMode', internalDarkMode'))

\* updateDarkMode whose state update is left to a later commit (no flushSync):
\* the state is queued but nothing is rendered and no effect has run
updateDarkMode_deferred(newValue) ==
    /\ IF hasOnDarkModeChange
       THEN /\ onChangeLog' = Append(onChangeLog, newValue)
            /\ UNCHANGED <<internalDarkMode, externalDarkMode>>
       ELSE /\ internalDarkMode' = newValue
            /\ UNCHANGED <<onChangeLog, externalDarkMode>>
    /\ UNCHANGED <<markerClass, storage>>

\* lines 175-183: updateDarkMode(value) followed by the commit it causes.
\* A parent that supplies isDarkMode together with onDarkModeChange owns the
\* state and re-renders the hook with the value it was handed.
updateDarkMode(newValue) ==
    /\ IF hasOnDarkModeChange
       THEN /\ onChangeLog' = Append(onChangeLog, newValue)
            /\ externalDarkMode' =
                 IF externalDarkMode # "undefined"
                 THEN (IF newValue THEN "true" ELSE "false")
                 ELSE externalDarkMode
            /\ UNCHANGED internalDarkMode
       ELSE /\ internalDarkMode' = newValue
            /\ UNCHANGED <<onChangeLog, externalDarkMode>>
    /\ ApplyThemeEffect(isDarkMode, isDarkModeOf(externalDarkMode', internalDarkMode'))

\* ------------------------------------------------------------------ Init

\* Without a window there is no document and no media query: the primitive
\* and both preferences only exist in a browser.  A storage global may exist.
Init ==
    /\ isBrowser \in BOOLEAN
    /\ hasStartViewTransition \in (IF isBrowser THEN BOOLEAN ELSE {FALSE})
    /\ reducedMotion \in (IF isBrowser THEN BOOLEAN ELSE {FALSE})
    /\ systemDark \in (IF isBrowser THEN BOOLEAN ELSE {FALSE})
    /\ animationType \in ThemeAnimationType
    /\ respectSystemPreference \in BOOLEAN
    /\ externalDarkMode \in {"undefined", "true", "false"}
    /\ hasOnDarkModeChange \in BOOLEAN
    /\ storage \in StorageValues
    /\ storageFails \in {"none", "write", "all"}
    /\ thrown = FALSE
    /\ markerClass = FALSE
    /\ baseStyle = FALSE
    /\ head = <<>>
    /\ listeners = 0
    /\ mounted = FALSE
    /\ unmounted = FALSE
    /\ internalDarkMode = FALSE
    /\ isTransitioning = FALSE
    /\ updateCallbacks = <<>>
    /\ timers = <<>>
    /\ nextId = 0
    /\ requests = <<>>
    /\ onChangeLog = <<>>
    /\ viewport = [w |-> 0, h |-> 0]
    /\ refRect = <<>>
    /\ keyframeGeometry = <<>>

\* --------------------------------------------------------------- actions

\* first render (useState initialisers, lines 130-131) and the mount effects:
\* base style (95-111), theme to DOM and storage (145-155), listener (158-172).
\* Nothing catches an exception of localStorage: one thrown by getItem (line
\* 117) aborts the first render, one thrown by setItem (lines 150, 153) leaves
\* the effect after the class was toggled, and React then unmounts the tree,
\* which runs the cleanup of the listener effect.
Mount ==
    /\ ~mounted /\ ~unmounted /\ ~thrown
    /\ isTransitioning' = FALSE
    /\ IF isBrowser /\ storageFails = "all"
       THEN /\ thrown' = TRUE
            /\ UNCHANGED <<mounted, internalDarkMode, baseStyle, markerClass,
                           storage, listeners>>
       ELSE /\ internalDarkMode' =
                 getInitialTheme(isBrowser, storage, respectSystemPreference, systemDark)
            /\ baseStyle' = isBrowser
            /\ IF isBrowser
               THEN LET dark == isDarkModeOf(externalDarkMode, internalDarkMode')
                    IN /\ markerClass' = dark
                       /\ storage' = IF storageFails = "write" THEN storage
                                     ELSE IF dark THEN "dark" ELSE "light"
               ELSE UNCHANGED <<markerClass, storage>>
            /\ thrown' = (isBrowser /\ storageFails = "write")
            /\ mounted' = ~thrown'
            /\ listeners' = ListenerEffect(listeners, FALSE,
                                           respectSystemPreference /\ ~thrown')
    /\ UNCHANGED <<envVars, unmounted, head, workVars, requests, onChangeLog>>

\* lines 316-408, the body of setTheme(isDark)
SetThemeBody(isDark) ==
    IF DirectPath
    THEN /\ updateDarkMode(isDark)
         /\ UNCHANGED <<cfgVars, geoVars, reducedMotion, systemDark, baseStyle, head,
                        listeners, mounted, unmounted, thrown, isTransitioning, workVars>>
    ELSE LET id        == nextId + 1
             atStart   == ApplyAnimationStyles(animationType, RemoveExistingStyle(head), id)
             afterCall == ApplyCircleStyle(animationType, atStart, id)
         IN /\ head' = afterCall
            /\ isTransitioning' = TRUE
            \* startViewTransition(cb): cb runs in a later task
            /\ updateCallbacks' = Append(updateCallbacks,
                   [id |-> id, isDark |-> isDark, styleAtStart |-> atStart # <<>>])
            /\ nextId' = id
            \* 'transition' already is the .ready promise, so transition.ready is
            \* undefined and the await resumes in the next microtask: the timer is
            \* set before this task ends
            /\ timers' = Append(timers, id)
            /\ UNCHANGED <<envVars, storage, markerClass, baseStyle, listeners,
                           mounted, unmounted, thrown, internalDarkMode, onChangeLog>>

\* one entry of the request log: the operation, the value handed to the body of
\* setTheme and the path the request took
Request(op, isDark, path) == [op |-> op, isDark |-> isDark, path |-> path]

\* what the log keeps of a request that is no longer one of the newest two:
\* only that it was made
Older == [op |-> "older", isDark |-> FALSE, path |-> "older"]

\* the request log after the requests in 'new' were made: the newest two
\* entries in full, older ones as Older
Logged(log, new) ==
    LET all == log \o new
    IN  [i \in 1..Len(all) |-> IF i + 2 <= Len(all) THEN Older ELSE all[i]]

PathTaken == IF DirectPath THEN "direct" ELSE "animated"

setTheme(isDark) ==
    /\ mounted
    /\ Len(requests) < MaxCalls
    /\ requests' = Logged(requests, <<Request("setTheme", isDark, PathTaken)>>)
    /\ SetThemeBody(isDark)

\* toggleTheme without the isTransitioning test of line 412
toggleTheme_unguarded ==
    /\ mounted
    /\ Len(requests) < MaxCalls
    /\ requests' = Logged(requests, <<Request("toggleTheme", ~isDarkMode, PathTaken)>>)
    /\ SetThemeBody(~isDarkMode)

\* lines 411-414
toggleTheme ==
    /\ mounted
    /\ Len(requests) < MaxCalls
    /\ IF isTransitioning
       THEN /\ requests' = Logged(requests,
                                   <<Request("toggleTheme", ~isDarkMode, "rejected")>>)
            /\ UNCHANGED <<envVars, docVars, reactVars, workVars, onChangeLog>>
       ELSE /\ requests' = Logged(requests,
                                   <<Request("toggleTheme", ~isDarkMode, PathTaken)>>)
            /\ SetThemeBody(~isDarkMode)

\* lines 175-183 run twice with the same value in one task (one commit)
updateDarkModeTwice(newValue) ==
    /\ IF hasOnDarkModeChange
       THEN /\ onChangeLog' = onChangeLog \o <<newValue, newValue>>
            /\ externalDarkMode' =
                 IF externalDarkMode # "undefined"
                 THEN (IF newValue THEN "true" ELSE "false")
                 ELSE externalDarkMode
            /\ UNCHANGED internalDarkMode
       ELSE /\ internalDarkMode' = newValue
            /\ UNCHANGED <<onChangeLog, externalDarkMode>>
    /\ ApplyThemeEffect(isDarkMode, isDarkModeOf(externalDarkMode', internalDarkMode'))

\* lines 411-414 called twice in a row by the caller within one task, so both
\* calls run the toggleTheme of the same render: they read the same
\* isTransitioning and the same isDarkMode (setIsTransitioning(true) of the
\* first call is not rendered before the second call), and each runs the
\* body of setTheme (lines 316-408) in full before the microtasks that set
\* the two timers
toggleThemeTwice ==
    /\ mounted
    /\ Len(requests) + 2 <= MaxCalls
    /\ IF isTransitioning
       THEN /\ requests' = Logged(requests,
                   << Request("toggleTheme", ~isDarkMode, "rejected"),
                      Request("toggleTheme", ~isDarkMode, "rejected") >>)
            /\ UNCHANGED <<envVars, docVars, reactVars, workVars, onChangeLog>>
       ELSE /\ requests' = Logged(requests,
                   << Request("toggleTheme", ~isDarkMode, PathTaken),
                      Request("toggleTheme", ~isDarkMode, PathTaken) >>)
            /\ IF DirectPath
               THEN /\ updateDarkModeTwice(~isDarkMode)
                    /\ UNCHANGED <<cfgVars, geoVars, reducedMotion, systemDark, baseStyle, head,
                                   listeners, mounted, unmounted, thrown, isTransitioning,
                                   workVars>>
               ELSE LET id1    == nextId + 1
                        id2    == nextId + 2
                        start1 == ApplyAnimationStyles(animationType,
                                      RemoveExistingStyle(head), id1)
                        after1 == ApplyCircleStyle(animationType, start1, id1)
                        start2 == ApplyAnimationStyles(animationType,
                                      RemoveExistingStyle(after1), id2)
                        after2 == ApplyCircleStyle(animationType, start2, id2)
                    IN /\ head' = after2
                       /\ isTransitioning' = TRUE
                       /\ updateCallbacks' = updateCallbacks \o
                            << [id |-> id1, isDark |-> ~isDarkMode,
                                styleAtStart |-> start1 # <<>>],
                               [id |-> id2, isDark |-> ~isDarkMode,
                                styleAtStart |-> start2 # <<>>] >>
                       /\ nextId' = id2
                       /\ timers' = timers \o <<id1, id2>>
                       /\ UNCHANGED <<envVars, storage, markerClass, baseStyle,
                                      listeners, mounted, unmounted, thrown, internalDarkMode,
                                      onChangeLog>>

\* lines 365-369: the platform runs the update callback of the oldest pending
\* transition: flushSync(() => updateDarkMode(isDark)).  After the component
\* was torn down the callback still runs: the caller's onDarkModeChange is
\* still invoked, setInternalDarkMode no longer has a state to set, and no
\* render, so no effect, follows.
UpdateCallback ==
    /\ updateCallbacks # <<>>
    /\ IF mounted
       THEN updateDarkMode(Head(updateCallbacks).isDark)
       ELSE /\ onChangeLog' = IF hasOnDarkModeChange
                              THEN Append(onChangeLog, Head(updateCallbacks).isDark)
                              ELSE onChangeLog
            /\ UNCHANGED <<externalDarkMode, internalDarkMode, markerClass, storage>>
    /\ updateCallbacks' = Tail(updateCallbacks)
    /\ UNCHANGED <<cfgVars, geoVars, reducedMotion, systemDark, baseStyle, head, listeners,
                   mounted, unmounted, thrown, isTransitioning, timers, nextId, requests>>

\* the cleanup callback without setIsTransitioning(false) (line 406)
CleanupTimer_keepsFlag ==
    /\ timers # <<>>
    /\ timers' = Tail(timers)
    /\ head' = RemoveExistingStyle(head)
    /\ UNCHANGED <<envVars, storage, markerClass, baseStyle, listeners, mounted, unmounted, thrown,
                   internalDarkMode, isTransitioning, updateCallbacks, nextId,
                   requests, onChangeLog>>

\* lines 401-407: the cleanup timer of the oldest pending transition fires
\* (also after the component was torn down, when setIsTransitioning no longer
\* has a state to set)
CleanupTimer ==
    /\ timers # <<>>
    /\ timers' = Tail(timers)
    /\ head' = RemoveExistingStyle(head)
    /\ isTransitioning' = (~mounted /\ isTransitioning)
    /\ UNCHANGED <<envVars, storage, markerClass, baseStyle, listeners, mounted, unmounted, thrown,
                   internalDarkMode, updateCallbacks, nextId, requests, onChangeLog>>

\* handleChange without the storage test of line 165
SystemPreferenceChange_ignoresStorage ==
    /\ (mounted \/ unmounted) /\ isBrowser
    /\ (listeners > 0 /\ hasOnDarkModeChange) => Len(onChangeLog) < MaxLog
    /\ systemDark' = ~systemDark
    /\ IF listeners > 0
       THEN updateDarkMode(systemDark')
       ELSE UNCHANGED <<externalDarkMode, internalDarkMode, storage, markerClass,
                        onChangeLog>>
    /\ UNCHANGED <<cfgVars, geoVars, reducedMotion, baseStyle, head, listeners, mounted, unmounted, thrown,
                   isTransitioning, workVars, requests>>

\* lines 163-168: the system colour scheme changes (also after the component
\* was torn down); handleChange runs if registered
SystemPreferenceChange ==
    /\ (mounted \/ unmounted) /\ isBrowser
    /\ (listeners > 0 /\ storage = "null" /\ hasOnDarkModeChange)
          => Len(onChangeLog) < MaxLog
    /\ systemDark' = ~systemDark
    /\ IF listeners > 0 /\ storage = "null"
       THEN updateDarkMode(systemDark')
       ELSE UNCHANGED <<externalDarkMode, internalDarkMode, storage, markerClass,
                        onChangeLog>>
    /\ UNCHANGED <<cfgVars, geoVars, reducedMotion, baseStyle, head, listeners, mounted, unmounted, thrown,
                   isTransitioning, workVars, requests>>

\* the entry under storageKey is removed from outside the hook (site data
\* cleared, another script): line 165 then finds no stored preference
StorageCleared ==
    /\ mounted /\ isBrowser
    /\ storage # "null"
    /\ storage' = "null"
    /\ UNCHANGED <<envVars, markerClass, baseStyle, head, listeners, reactVars,
                   workVars, requests, onChangeLog>>

\* the user switches the reduced-motion setting of the system
ReducedMotionChange ==
    /\ mounted /\ isBrowser
    /\ reducedMotion' = ~reducedMotion
    /\ UNCHANGED <<cfgVars, geoVars, systemDark, externalDarkMode, docVars, reactVars,
                   workVars, requests, onChangeLog>>

\* the parent re-renders the hook with the other value of options.isDarkMode:
\* line 134 takes it and the effect of lines 145-155 applies it
ExternalChange_noEffect ==
    /\ mounted
    /\ externalDarkMode # "undefined"
    /\ externalDarkMode' = IF externalDarkMode = "true" THEN "false" ELSE "true"
    /\ UNCHANGED <<cfgVars, geoVars, reducedMotion, systemDark, docVars, reactVars,
                   workVars, requests, onChangeLog>>

\* lines 134 and 145-155: the parent re-renders the hook with the other value
\* of options.isDarkMode
ExternalChange ==
    /\ mounted
    /\ externalDarkMode # "undefined"
    /\ externalDarkMode' = IF externalDarkMode = "true" THEN "false" ELSE "true"
    /\ ApplyThemeEffect(isDarkMode, isDarkModeOf(externalDarkMode', internalDarkMode))
    /\ UNCHANGED <<cfgVars, geoVars, reducedMotion, systemDark, baseStyle, head,
                   listeners, reactVars, workVars, requests, onChangeLog>>

\* lines 158-172: the parent re-renders the hook with the other value of
\* options.respectSystemPreference, a dependency of the listener effect
RespectChange ==
    /\ mounted
    /\ respectSystemPreference' = ~respectSystemPreference
    /\ listeners' = ListenerEffect(listeners, respectSystemPreference,
                                   respectSystemPreference')
    /\ UNCHANGED <<isBrowser, hasStartViewTransition, animationType,
                   hasOnDarkModeChange, storageFails, geoVars, reducedMotion,
                   systemDark, externalDarkMode, storage, markerClass, baseStyle, head,
                   reactVars, workVars, requests, onChangeLog>>

\* lines 145-155 and 158-172: the parent re-renders the hook with another
\* options.storageKey, a dependency of both effects: the theme is written
\* under the new key, which is the entry the hook reads from then on, and the
\* listener is replaced by one that reads the new key
StorageKeyChange ==
    /\ mounted
    /\ IF isBrowser
       THEN /\ markerClass' = isDarkMode
            /\ storage' = IF isDarkMode THEN "dark" ELSE "light"
       ELSE UNCHANGED <<markerClass, storage>>
    /\ listeners' = ListenerEffect(listeners, respectSystemPreference,
                                   respectSystemPreference)
    /\ UNCHANGED <<envVars, baseStyle, head, reactVars, workVars, requests,
                   onChangeLog>>

\* the component is torn down: the cleanup of the listener effect runs (line
\* 171); the other effects return no cleanup, so marker class, storage entry,
\* style elements, pending update callbacks and pending timers stay
Unmount ==
    /\ mounted
    /\ mounted' = FALSE
    /\ unmounted' = TRUE
    /\ listeners' = ListenerEffect(listeners, respectSystemPreference, FALSE)
    /\ UNCHANGED <<envVars, storage, markerClass, baseStyle, head, internalDarkMode,
                   isTransitioning, thrown, workVars, requests, onChangeLog>>

Next ==
    \/ Mount
    \/ \E isDark \in BOOLEAN : setTheme(isDark)
    \/ toggleTheme
    \/ toggleThemeTwice
    \/ UpdateCallback
    \/ CleanupTimer
    \/ SystemPreferenceChange
    \/ StorageCleared
    \/ ReducedMotionChange

Spec == Init /\ [][Next]_vars

\* The event loop runs every timer that is due and the platform calls every
\* update callback it was handed (also that of a skipped transition).
FairSpec == Spec /\ WF_vars(CleanupTimer) /\ WF_vars(UpdateCallback)

\* ------------------------------------------------- life of the component
\* Spec is the hook of one mounted component whose options stay as they were
\* at setup.  LifeSpec adds what the parent can do to the component: render it
\* with another isDarkMode, respectSystemPreference or storageKey, and tear it
\* down.

LifeNext ==
    \/ Next
    \/ ExternalChange
    \/ RespectChange
    \/ StorageKeyChange
    \/ Unmount

LifeSpec == Init /\ [][LifeNext]_vars

\* ---------------------------------------------- geometry of one transition
\* The numbers setTheme writes into the keyframes depend on the page only
\* (viewport and bounding box of the bound element), not on the state of the
\* hook: they are computed here for every page within the bounds, for a hook
\* that is mounted, idle and on the animated path.

Sides == 0..MaxSide \cup {100}

Viewports == [w : Sides, h : Sides]

Rects == [left : -1..MaxSide, top : -1..MaxSide, width : 0..MaxSide, height : 0..MaxSide]

GeoInit ==
    /\ isBrowser = TRUE
    /\ hasStartViewTransition = TRUE
    /\ reducedMotion = FALSE
    /\ systemDark = FALSE
    /\ animationType \in {"circle", "blur-circle"}
    /\ respectSystemPreference = FALSE
    /\ externalDarkMode = "undefined"
    /\ hasOnDarkModeChange = FALSE
    /\ storage = "light"
    /\ storageFails = "none"
    /\ thrown = FALSE
    /\ markerClass = FALSE
    /\ baseStyle = TRUE
    /\ head = <<>>
    /\ listeners = 0
    /\ mounted = TRUE
    /\ unmounted = FALSE
    /\ internalDarkMode = FALSE
    /\ isTransitioning = FALSE
    /\ updateCallbacks = <<>>
    /\ timers = <<>>
    /\ nextId = 0
    /\ requests = <<>>
    /\ onChangeLog = <<>>
    /\ viewport \in Viewports
    /\ refRect \in {<<>>} \cup {<<r>> : r \in Rects}
    /\ keyframeGeometry = <<>>

hookVars == <<cfgVars, reducedMotion, systemDark, externalDarkMode, docVars,
              reactVars, workVars, requests, onChangeLog>>

\* lines 333-341 and 372-376: anchor and maxRadius of the circle fragment
CircleGeometry ==
    /\ animationType = "circle"
    /\ keyframeGeometry = <<>>
    /\ LET a == ResolveAnchor(refRect, viewport)
       IN  keyframeGeometry' = << [kind |-> "circle", x |-> a.x, y |-> a.y,
                                   maxRadiusSq |-> maxRadiusSq(a.x, a.y, viewport)] >>
    /\ UNCHANGED <<hookVars, viewport, refRect>>

\* lines 333-341 and 271-305: anchor and maskScale keyframes of the blur-circle
\* fragment
BlurCircleGeometry ==
    /\ animationType = "blur-circle"
    /\ keyframeGeometry = <<>>
    /\ LET a == ResolveAnchor(refRect, viewport)
       IN  keyframeGeometry' = << [kind |-> "blur-circle", x |-> a.x, y |-> a.y,
                                   from |-> maskScaleFrom(a.x, a.y),
                                   to |-> maskScaleTo(a.x, a.y, viewport)] >>
    /\ UNCHANGED <<hookVars, viewport, refRect>>

GeoNext ==
    \/ CircleGeometry
    \/ BlurCircleGeometry

GeoSpec == GeoInit /\ [][GeoNext]_vars

\* ======================================================================
\* Properties
\* ======================================================================

InternalMode == externalDarkMode = "undefined" /\ ~hasOnDarkModeChange

StoredAs(v) == IF v THEN "dark" ELSE "light"

\* a step that finishes processing setTheme(v): the direct path on return, the
\* animated path when the platform runs the update callback of the request
Processes(v) ==
    \/ /\ Len(requests') = Len(requests) + 1
       /\ requests'[Len(requests')].isDark = v
       /\ requests'[Len(requests')].path = "direct"
    \/ /\ updateCallbacks # <<>>
       /\ Head(updateCallbacks).isDark = v
       /\ updateCallbacks' = Tail(updateCallbacks)

C1_Shown(v) == isDarkMode = v /\ markerClass = v /\ storage = StoredAs(v)

\* C1 (as claimed): in internal-state mode, in every environment, once a
\* setTheme(v) request is fully processed isDarkMode = v, the marker class is
\* on the root exactly when v, and the storage entry is "dark"/"light" for v.
C1_AsClaimed ==
    [][\A v \in BOOLEAN : (InternalMode /\ Processes(v)) => C1_Shown(v)']_vars

\* C1 (amended): in internal-state mode, once a setTheme(v) request is fully
\* processed isDarkMode = v; in a document environment the marker class is on
\* the root exactly when v, and the storage entry is "dark"/"light" for v
\* whenever the request changed isDarkMode (when the theme already was v the
\* entry is not rewritten, so one removed from outside stays absent); outside
\* a document environment marker class and storage are left untouched.
C1_ThemeApplied ==
    [][\A v \in BOOLEAN : (InternalMode /\ Processes(v)) =>
          /\ isDarkMode' = v
          /\ isBrowser => /\ markerClass' = v
                          /\ isDarkMode # v => storage' = StoredAs(v)
                          /\ isDarkMode = v => storage' = storage
          /\ ~isBrowser => UNCHANGED <<markerClass, storage>>]_vars

\* an animated setTheme(FALSE) from dark has been carried out by the platform
C1_Witness ==
    /\ InternalMode /\ isBrowser
    /\ requests = <<Request("setTheme", TRUE, "direct"),
                    Request("setTheme", FALSE, "animated")>>
    /\ updateCallbacks = <<>>
    /\ ~isDarkMode /\ ~markerClass /\ storage = "light"

\* C2: whenever there is no document, no start-transition primitive, reduced
\* motion is on or the kind is none, setTheme(v) hands v to the update path at
\* once, creates no fragment, does not call the primitive, sets no timer and
\* leaves isTransitioning as it is.
C2_DirectPathOnly ==
    [][\A v \in BOOLEAN :
          ( /\ ~isBrowser \/ ~hasStartViewTransition \/ reducedMotion
                \/ animationType = "none"
            /\ setTheme(v) ) =>
          /\ head' = head
          /\ updateCallbacks' = updateCallbacks
          /\ nextId' = nextId
          /\ timers' = timers
          /\ isTransitioning' = isTransitioning
          /\ IF hasOnDarkModeChange
             THEN onChangeLog' = Append(onChangeLog, v) /\ UNCHANGED internalDarkMode
             ELSE internalDarkMode' = v /\ UNCHANGED onChangeLog]_vars

\* reduced motion was switched on during a transition and setTheme(FALSE) then
\* went down the direct path while the transition was still in flight
C2_Witness ==
    /\ reducedMotion /\ isTransitioning
    /\ requests = <<Request("setTheme", TRUE, "animated"),
                    Request("setTheme", FALSE, "direct")>>
    /\ Len(head) = 1 /\ Len(timers) = 1 /\ nextId = 1

\* C3: a toggleTheme call made while isTransitioning is true changes neither
\* the theme state, nor the injected fragment, nor the flag, nor the pending
\* timers, and does not call the platform primitive.
C3_ToggleRejected ==
    [][(isTransitioning /\ toggleTheme) =>
          UNCHANGED <<internalDarkMode, externalDarkMode, onChangeLog, markerClass,
                      storage, head, isTransitioning, timers, updateCallbacks,
                      nextId>>]_vars

\* a toggleTheme call was made, and rejected, during a transition
C3_Witness ==
    /\ isTransitioning
    /\ Len(requests) = 2
    /\ requests[1].path = "animated"
    /\ requests[2].op = "toggleTheme" /\ requests[2].path = "rejected"
    /\ nextId = 1 /\ Len(timers) = 1

\* the caller supplies isDarkMode and onDarkModeChange together or not at all
ValidConfig == (externalDarkMode = "undefined") <=> ~hasOnDarkModeChange

\* C4 (as claimed): with kind fade on the animated path, one toggleTheme from
\* light and Idle leaves a fragment with the fadeIn and fadeOut keyframes and
\* isTransitioning true; when the cleanup timer of that transition has fired
\* the fragment is gone, isTransitioning is false and isDarkMode is true.
C4_AsClaimed ==
    [][/\ ( /\ animationType = "fade" /\ ValidConfig
            /\ requests = <<>>
            /\ requests' = <<Request("toggleTheme", TRUE, "animated")>> ) =>
          /\ \E i \in DOMAIN head' : {"fadeIn", "fadeOut"} \subseteq head'[i].keyframes
          /\ isTransitioning'
       /\ ( /\ animationType = "fade" /\ ValidConfig
            /\ requests = <<Request("toggleTheme", TRUE, "animated")>>
            /\ timers # <<>> /\ timers' = Tail(timers) ) =>
          /\ head' = <<>>
          /\ ~isTransitioning'
          /\ isDarkMode'
      ]_vars

\* C5 (as claimed): setTheme(true) called again when the theme is already dark
\* after a first setTheme(true) leaves the theme unchanged, starts no platform
\* transition, injects no fragment and does not set isTransitioning.
C5_AsClaimed ==
    [][( /\ requests = <<Request("setTheme", TRUE, "animated")>>
         /\ updateCallbacks = <<>> /\ isDarkMode /\ ValidConfig
         /\ setTheme(TRUE) ) =>
          /\ isDarkMode'
          /\ nextId' = nextId
          /\ head' = head
          /\ isTransitioning' = isTransitioning]_vars

\* C6: the initial internal theme is true for a stored "dark", false for a
\* stored "light", the system preference for anything else when
\* respectSystemPreference is on and false when it is off, and false whenever
\* there is no document environment.
C6_InitialTheme ==
    [][(~mounted /\ mounted') =>
          /\ ~isBrowser => internalDarkMode' = FALSE
          /\ (isBrowser /\ storage = "dark") => internalDarkMode' = TRUE
          /\ (isBrowser /\ storage = "light") => internalDarkMode' = FALSE
          /\ (isBrowser /\ storage \notin {"dark", "light"} /\ respectSystemPreference)
                => internalDarkMode' = systemDark
          /\ (isBrowser /\ storage \notin {"dark", "light"} /\ ~respectSystemPreference)
                => internalDarkMode' = FALSE]_vars

\* the hook was mounted with an initial internal theme of dark while the caller
\* supplies light, so the value can only come from the initial resolution
C6_Witness ==
    /\ mounted /\ isBrowser /\ requests = <<>> /\ onChangeLog = <<>>
    /\ internalDarkMode /\ externalDarkMode = "false" /\ storage = "light"

\* C7 (as claimed): isTransitioning is true in every state in which an accepted
\* transition has not had its own cleanup run.
C7_AsClaimed == (timers # <<>>) => isTransitioning

\* C8: at most one animation style fragment with the configured identifier is
\* in the document, whatever requests and timers interleave.
C8_OneFragment == Len(head) <= 1

\* a second setTheme was accepted while the first transition was in flight
C8_Witness ==
    /\ Len(requests) = 2
    /\ requests[1].path = "animated" /\ requests[2].path = "animated"
    /\ Len(timers) = 2 /\ nextId = 2
    /\ Len(head) = 1 /\ head[1].owner = 2

\* C9 (as claimed): for every animated kind the fragment of the transition is
\* attached when the platform start-transition primitive is invoked.
C9_AsClaimed ==
    \A i \in DOMAIN updateCallbacks : updateCallbacks[i].styleAtStart

\* C9 (amended): for fade, slide and blur-circle the fragment of the
\* transition is attached when the primitive is invoked; for circle nothing is
\* attached at that moment and the circle fragment is attached right after the
\* call, before setTheme yields (so before the update callback can run).
C9_StyleBeforeStart ==
    [][(nextId' # nextId) =>
          LET cb == updateCallbacks'[Len(updateCallbacks')]
          IN /\ cb.id = nextId'
             /\ animationType \in {"fade", "slide", "blur-circle"} =>
                   /\ cb.styleAtStart
                   /\ head' = <<Fragment(animationType, cb.id)>>
             /\ animationType = "circle" =>
                   /\ ~cb.styleAtStart
                   /\ head' = <<Fragment("circle", cb.id)>>]_vars

\* a fade transition was handed to the platform with its fragment in place
C9_Witness ==
    /\ animationType = "fade"
    /\ Len(updateCallbacks) = 1 /\ updateCallbacks[1].styleAtStart
    /\ head = <<Fragment("fade", updateCallbacks[1].id)>>

\* C10 (as claimed): the cleanup timer of a transition is never scheduled
\* while the readiness signal of that transition is still pending.
C10_AsClaimed ==
    \A i \in DOMAIN timers :
        \A j \in DOMAIN updateCallbacks : updateCallbacks[j].id # timers[i]

\* C11: with timers and platform callbacks running fairly, and whatever
\* requests arrive, once requests have stopped the hook reaches, and stays in,
\* a state with isTransitioning false, no animation fragment in the document
\* and no cleanup timer pending.
C11_EventuallyClean ==
    <>[](~isTransitioning /\ head = <<>> /\ timers = <<>>)

\* two overlapping transitions were accepted and both have been cleaned up
C11_Witness ==
    /\ Len(requests) = 2
    /\ requests[1].path = "animated" /\ requests[2].path = "animated"
    /\ nextId = 2
    /\ ~isTransitioning /\ head = <<>> /\ timers = <<>>

\* a step in which handleChange is delivered a change of the system preference
\* to v while it finds no stored preference
AmbientUpdate(v) ==
    /\ mounted /\ listeners > 0 /\ storage = "null"
    /\ systemDark' # systemDark /\ systemDark' = v

\* what one pass through the update path with value v does
OnePass(v) ==
    IF hasOnDarkModeChange
    THEN onChangeLog' = Append(onChangeLog, v) /\ UNCHANGED internalDarkMode
    ELSE internalDarkMode' = v /\ UNCHANGED onChangeLog

\* C12: after mount the internal state and the change callback are only
\* reached through the update path, and every pass through it (direct
\* setTheme or toggleTheme, platform callback, system-preference notification)
\* either invokes the callback exactly once and leaves the internal state, or
\* sets the internal state and invokes no callback.
C12_SingleUpdatePath ==
    [][mounted =>
          /\ onChangeLog' # onChangeLog =>
                (hasOnDarkModeChange /\ internalDarkMode' = internalDarkMode)
          /\ internalDarkMode' # internalDarkMode =>
                (~hasOnDarkModeChange /\ onChangeLog' = onChangeLog)
          /\ \A v \in BOOLEAN :
                /\ (Processes(v) \/ AmbientUpdate(v)) => OnePass(v)
                /\ ( /\ Len(requests') = Len(requests) + 2
                     /\ requests'[Len(requests')] = Request("toggleTheme", v, "direct") ) =>
                      IF hasOnDarkModeChange
                      THEN /\ onChangeLog' = onChangeLog \o <<v, v>>
                           /\ UNCHANGED internalDarkMode
                      ELSE internalDarkMode' = v /\ UNCHANGED onChangeLog]_vars

\* the platform ran the update callback of a toggle and the toggled value went
\* to the caller's callback, once, while the internal state kept its value
C12_Witness ==
    /\ hasOnDarkModeChange
    /\ Len(requests) = 1 /\ requests[1].path = "animated"
    /\ nextId = 1 /\ updateCallbacks = <<>>
    /\ onChangeLog = <<requests[1].isDark>>
    /\ internalDarkMode # requests[1].isDark

\* C13 (as claimed): for every combination of external value and callback
\* being supplied or not, an update is never written to the internal state
\* while isDarkMode is read from the external value, nor sent to the callback
\* while isDarkMode is read from the internal state.
C13_AsClaimed ==
    [][mounted =>
          /\ internalDarkMode' # internalDarkMode => externalDarkMode = "undefined"
          /\ onChangeLog' # onChangeLog => externalDarkMode # "undefined"]_vars

\* C14: while mounted with respectSystemPreference on, a system-preference
\* notification hands the new value to the update path when no stored
\* preference exists - without touching fragment, flag, platform primitive or
\* timers - and leaves the theme alone when one exists; with
\* respectSystemPreference off no notification changes the theme.
C14_AmbientNotification ==
    [][(mounted /\ systemDark' # systemDark) =>
          /\ UNCHANGED <<head, isTransitioning, updateCallbacks, timers, nextId>>
          /\ (respectSystemPreference /\ storage = "null") => OnePass(systemDark')
          /\ (~respectSystemPreference \/ storage # "null") =>
                UNCHANGED <<internalDarkMode, externalDarkMode, onChangeLog,
                            markerClass, storage>>]_vars

\* before any request, a notification reached the update path: the stored
\* entry had been removed from outside
C14_Witness ==
    /\ mounted /\ respectSystemPreference /\ listeners > 0
    /\ requests = <<>>
    /\ onChangeLog = <<systemDark>>

\* C15 (as claimed): no exception ever escapes from the hook, also when the
\* storage read or write fails.
C15_AsClaimed == ~thrown

\* C17 (as claimed): a toggleTheme call is never accepted while an earlier
\* accepted transition still waits for its cleanup, also when two calls are
\* made back-to-back: no two toggle-initiated transitions are in flight at once.
C17_AsClaimed ==
    ( /\ nextId = 2
      /\ \E i, j \in DOMAIN requests :
            /\ i < j
            /\ requests[i].op = "toggleTheme" /\ requests[i].path = "animated"
            /\ requests[j].op = "toggleTheme" /\ requests[j].path = "animated" )
    => Len(timers) <= 1

\* C16: outside a document environment the initial theme is false, and no
\* request ever touches storage (not even to read it: a storage that throws
\* raises nothing), marker class, base or animation fragment, subscription,
\* platform primitive, timers or isTransitioning; setTheme(v) only hands v to
\* the update path.
C16_NoDocument ==
    [][~isBrowser =>
          /\ UNCHANGED <<storage, markerClass, baseStyle, head, listeners,
                         isTransitioning, updateCallbacks, timers, nextId, thrown>>
          /\ (~mounted /\ mounted') => internalDarkMode' = FALSE
          /\ \A v \in BOOLEAN : setTheme(v) => OnePass(v)]_vars

\* two requests were served without a document, next to a storage that throws
C16_Witness ==
    /\ ~isBrowser /\ mounted /\ storageFails = "all" /\ storage = "dark"
    /\ requests = <<Request("toggleTheme", TRUE, "direct"),
                    Request("setTheme", TRUE, "direct")>>
    /\ internalDarkMode /\ ~markerClass /\ ~thrown

C19_AsClaimed ==
    ( /\ ValidConfig
      /\ Len(requests) = 2
      /\ requests[1].path = "animated"
      /\ requests[2].op = "setTheme" /\ requests[2].path = "animated"
      /\ timers = <<>> )
    => isDarkMode = requests[2].isDark

\* C20 (as claimed): the fragment of an accepted transition is removed only
\* by the cleanup timer of that same transition, never by the timer of an
\* earlier one.
C20_AsClaimed ==
    [][( /\ timers # <<>> /\ timers' = Tail(timers)
         /\ head # <<>> /\ head' = Tail(head) ) =>
          Head(head).owner = Head(timers)]_vars

\* squared distance, in quarter pixels, between two points given in pixels
\* times four
DistSq(x1, y1, x2, y2) == (x1 - x2) * (x1 - x2) + (y1 - y2) * (y1 - y2)

Corners(vp) == {[x |-> cx, y |-> cy] : cx \in {0, Px(vp.w)}, cy \in {0, Px(vp.h)}}

\* C21: the anchor is the centre of the bounding box of the bound element
\* (as far from its left edge as from its right edge, and from its top as from
\* its bottom) when an element is bound and the viewport centre (W/2, H/2)
\* otherwise; the circle kind's maximum radius r has r^2 = max(x, W-x)^2 +
\* max(y, H-y)^2, which is at least the squared distance from the anchor to
\* each viewport corner and equal to it for some corner; r^2 = 20000 for the
\* anchor (0, 0) in a 100 x 100 viewport.
C21_AnchorAndRadius ==
    keyframeGeometry # <<>> =>
        LET g == keyframeGeometry[1]
            W == Px(viewport.w)
            H == Px(viewport.h)
        IN  /\ IF refRect = <<>>
               THEN 2 * g.x = W /\ 2 * g.y = H
               ELSE LET r == refRect[1]
                    IN  /\ g.x - Px(r.left) = Px(r.left + r.width) - g.x
                        /\ g.y - Px(r.top) = Px(r.top + r.height) - g.y
            /\ g.kind = "circle" =>
                  /\ g.maxRadiusSq =
                        (IF g.x >= W - g.x THEN g.x * g.x
                                           ELSE (W - g.x) * (W - g.x))
                      + (IF g.y >= H - g.y THEN g.y * g.y
                                           ELSE (H - g.y) * (H - g.y))
                  /\ \A c \in Corners(viewport) :
                        g.maxRadiusSq >= DistSq(g.x, g.y, c.x, c.y)
                  /\ \E c \in Corners(viewport) :
                        g.maxRadiusSq = DistSq(g.x, g.y, c.x, c.y)
                  /\ (viewport = [w |-> 100, h |-> 100] /\ g.x = 0 /\ g.y = 0) =>
                        g.maxRadiusSq = 16 * 20000

\* the circle fragment was computed for an element whose centre is the origin
\* of a 100 x 100 viewport
C21_Witness ==
    /\ viewport = [w |-> 100, h |-> 100]
    /\ refRect = <<[left |-> -1, top |-> -1, width |-> 2, height |-> 2]>>
    /\ keyframeGeometry # <<>>
    /\ keyframeGeometry[1].kind = "circle"
    /\ keyframeGeometry[1].x = 0 /\ keyframeGeometry[1].y = 0
    /\ keyframeGeometry[1].maxRadiusSq = 320000

\* C22 (as claimed): for the blur-circle kind the mask grows from size 0 to the
\* viewport diagonal times 5.5, and at the final keyframe the mask position is
\* the anchor minus half of the final size on each axis.
C22_AsClaimed ==
    (keyframeGeometry # <<>> /\ keyframeGeometry[1].kind = "blur-circle") =>
        LET g == keyframeGeometry[1]
        IN  /\ g.from.size = 0
            \* size = 5.5 * sqrt(W^2 + H^2), squared and cleared of fractions
            /\ 4 * g.to.size * g.to.size =
                  scaleFactorTwice * scaleFactorTwice
                  * (Px(viewport.w) * Px(viewport.w) + Px(viewport.h) * Px(viewport.h))
            /\ 2 * (g.x - g.to.px) = g.to.size
            /\ 2 * (g.y - g.to.py) = g.to.size

\* C22 (amended): for the blur-circle kind the mask grows from size 0, placed
\* at the anchor, to the larger of viewport width and height times 5.5, and
\* at the final keyframe the mask position is the anchor minus half of the
\* final size on each axis.
C22_MaskGrowth ==
    (keyframeGeometry # <<>> /\ keyframeGeometry[1].kind = "blur-circle") =>
        LET g == keyframeGeometry[1]
            W == Px(viewport.w)
            H == Px(viewport.h)
        IN  /\ g.from.size = 0
            /\ g.from.px = g.x /\ g.from.py = g.y
            /\ 2 * g.to.size = 11 * (IF W >= H THEN W ELSE H)
            /\ 2 * (g.x - g.to.px) = g.to.size
            /\ 2 * (g.y - g.to.py) = g.to.size

\* the blur-circle fragment was computed for a bound element in a viewport
\* that is higher than wide
C22_Witness ==
    /\ viewport = [w |-> 1, h |-> 2]
    /\ refRect # <<>>
    /\ keyframeGeometry # <<>>
    /\ keyframeGeometry[1].kind = "blur-circle"
    /\ keyframeGeometry[1].to.size = 44

\* C23 (as claimed): an accepted toggleTheme behaves as setTheme(not s) for
\* the theme s shown when it is called: in internal-state mode a toggle made
\* from Idle flips isDarkMode as soon as it is processed, and a second toggle,
\* issued after the cleanup of the first transition has completed, is accepted
\* and asks for the value shown before the first call, so that two toggles
\* bring the theme back to where it was.
C23_AsClaimed ==
    [][( /\ InternalMode
         /\ ~isTransitioning
         /\ toggleTheme ) =>
          /\ DirectPath => isDarkMode' = ~isDarkMode
          /\ ( /\ Len(requests) = 1
               /\ requests[1].op = "toggleTheme" /\ requests[1].path # "rejected"
               /\ timers = <<>> ) =>
                  /\ requests'[2].path # "rejected"
                  /\ requests'[2].isDark = ~requests[1].isDark]_vars

\* C24: the listener effect keeps exactly one ambient subscription while the
\* component is mounted in a document environment with respectSystemPreference
\* on and none otherwise, also across re-subscriptions caused by a changed
\* storage key or respectSystemPreference flag; after teardown none is left,
\* and a change of the system preference delivered after teardown neither
\* invokes the update path nor changes theme state, marker class or storage.
C24_UnsubscribedOnTeardown ==
    [][/\ listeners' <= 1
       /\ mounted' =>
             listeners' = (IF isBrowser /\ respectSystemPreference' THEN 1 ELSE 0)
       /\ ~mounted' => listeners' = 0
       /\ (unmounted /\ systemDark' # systemDark) =>
             UNCHANGED <<internalDarkMode, externalDarkMode, onChangeLog, markerClass,
                         storage>>]_vars

\* a component that was subscribed, and whose storage entry had been removed
\* so that a notification would have reached the update path, was torn down
\* and its subscription is gone
C24_Witness ==
    /\ unmounted /\ isBrowser /\ respectSystemPreference
    /\ storage = "null"
    /\ listeners = 0

\* C25: in a document environment, in every state after the mount effect has
\* run, whatever setTheme, toggleTheme, external-value changes, option changes
\* and ambient notifications have happened, the marker class is on the root
\* exactly when isDarkMode is true and the storage entry under the storage key
\* is "dark" when isDarkMode is true and "light" otherwise, unless it is absent,
\* and it is absent only when it was removed from outside the hook; a stored
\* preference therefore exists from the first mount on.
C25_StoredPreference ==
    [][(mounted' /\ isBrowser) =>
          /\ markerClass' = isDarkMode'
          /\ \/ storage' = StoredAs(isDarkMode')
             \/ /\ storage' = "null"
                /\ storage = "null" \/ StorageCleared]_vars

\* the caller supplies dark while nothing was stored as dark and no request
\* was ever made: the mount effect has stored "dark" and set the marker class
C25_Witness ==
    /\ mounted /\ isBrowser
    /\ externalDarkMode = "true" /\ ~internalDarkMode
    /\ requests = <<>> /\ onChangeLog = <<>>
    /\ storage = "dark" /\ markerClass

====
